---- MODULE Spec2Model ----
\* Verification model of crypticpy/RTASS: the silence-aware segmentation
\* planner (transcriber/utils.py), the audio preparation pipeline
\* (transcriber/audio_processor.py) and the sectional compliance scorer
\* (transcriber/scoring.py).
\*
\* Times are integers in milliseconds (the source uses float seconds; 1.0 s is
\* ONE_SECOND).  File sizes are integers in bytes.
EXTENDS Integers, Sequences, FiniteSets, TLC

\* ------------------------------------------------------------------ bounds
\* Generated inputs lie on a grid of GridMs milliseconds.
GridMs == 500
\* Generated durations are 0 .. MaxDurSteps grid steps.
MaxDurSteps == 7
\* Generated target_seconds are -1 .. MaxTargetSteps grid steps.
MaxTargetSteps == 3
\* Generated max_extension are 0 .. MaxExtSteps grid steps.
MaxExtSteps == 2
\* Generated silence markers lie at 1 .. MaxMarkerSteps grid steps.
MaxMarkerSteps == 6
\* At most MaxEndMarkers silence_end and MaxStartMarkers silence_start markers.
MaxEndMarkers == 2
MaxStartMarkers == 1
\* prepare_audio: target_kbps is 16, 32, ... MaxKbpsSteps * 16.
MaxKbpsSteps == 3
\* prepare_audio: generated byte caps are 1 .. MaxCapSteps times CapStepBytes.
CapStepBytes == 2500
MaxCapSteps == 3
\* Silence markers detected in the pipeline: at most MaxDetected of each kind.
MaxDetected == 1
\* Templates have 1 .. MaxSections sections.
MaxSections == 2
\* ComplianceScorer is built with max_retries in 0 .. MaxRetries.
MaxRetries == 1
\* ComplianceScorer is built with concurrency in 0 .. MaxConcurrency.
MaxConcurrency == 2

\* _aggregate_sections is applied to lists of 0 .. MaxPayloads section payloads,
\* with scores 0 .. MaxScoreSteps times ScoreStep and weights 0 .. MaxWeight.
MaxPayloads == 2
ScoreStep == 40
MaxScoreSteps == 2
MaxWeight == 2
\* calls of AudioProcessor.cleanup after one prepare_audio
MaxCleanups == 2
\* unlink calls that fail during the cleanups of one run
MaxUnlinkFailures == 1
\* parts split_mp3_under_limit is followed for (its loop need not end)
MaxParts == 16

\* --------------------------------------------------------------- constants
\* The literal 1.0 (seconds) of the minimum-spacing guards.
ONE_SECOND == 1000
\* The literal 0.5 (seconds) below which a planned segment is skipped.
HALF_SECOND == 500
\* 1024**2
MB == 1048576
MAX_UPLOAD_MB == 25
SAFETY_MB == 23
TARGET_MP3_KBPS == 32
\* The least size in bytes a re-encoded file may have.
MIN_MP3_BYTES == 1024

\* ----------------------------------------------------------------- helpers
Max(a, b) == IF a >= b THEN a ELSE b
Min(a, b) == IF a <= b THEN a ELSE b
Abs(a) == IF a >= 0 THEN a ELSE -a

RECURSIVE SortedSeq(_)
\* The ascending sequence of the elements of a finite set of integers.
SortedSeq(S) ==
  IF S = {} THEN <<>>
  ELSE LET m == CHOOSE x \in S : \A y \in S : x <= y
       IN <<m>> \o SortedSeq(S \ {m})

SeqRange(s) == {s[i] : i \in DOMAIN s}

\* Lexicographic order on the (distance, kind, value) tuples of candidates.
TupleLess(a, b) ==
  \/ a[1] < b[1]
  \/ a[1] = b[1] /\ a[2] < b[2]
  \/ a[1] = b[1] /\ a[2] = b[2] /\ a[3] < b[3]

RECURSIVE SortTuples(_)
\* list.sort() on a list of tuples (given as the set of its elements).
SortTuples(S) ==
  IF S = {} THEN <<>>
  ELSE LET m == CHOOSE x \in S : \A y \in S : x = y \/ TupleLess(x, y)
       IN <<m>> \o SortTuples(S \ {m})

\* ------------------------------------------------------------------- state
VARIABLES
  pc,              \* position of the modelled call
  duration,        \* compute_silence_boundaries: duration (ms)
  markers,         \* {"start": [...], "end": [...]} (ms, ascending)
  target_seconds,  \* nominal chunk length (ms)
  max_extension,   \* extension window (ms)
  boundaries,      \* the list being built / returned
  last_boundary,
  target,
  boundary,        \* the loop's local `boundary`
  candidates,      \* _select_boundary's sorted candidate list at its return
  reencode,        \* prepare_audio: reencode
  ffmpeg,          \* what ffmpeg_available() returns
  use_silence_splitting,
  target_kbps,     \* prepare_audio: target_kbps
  max_bytes,       \* cap_mb * 1024**2 (bytes)
  src_size,        \* size of the uploaded file (bytes)
  files,           \* the files on disk: a set of [path, size]
  temp_files,      \* AudioProcessor.temp_files
  segments,        \* the list a split / prepare_audio builds and returns
  exports,         \* split_mp3_by_silence: outcome of each export attempt so far
  error,           \* what was raised ("none" while nothing was)
  idx,             \* loop index of the export loops
  start,           \* split_mp3_under_limit: start (ms)
  max_ms,          \* split_mp3_under_limit: max_ms
  playback_rate,   \* prepare_audio: playback_rate, in hundredths (1.0 is 100)
  reenc,           \* reencode_to_mp3_speech: what its two paths did
  detect_rc,       \* detect_silence_markers: result.returncode (-1 before the run)
  tmp_dir,         \* the st_transcribe_ directory exists
  cleanup,         \* AudioProcessor.cleanup: calls made, loop position, removals
  n_sections,      \* len(sections) of the template
  max_retries,     \* ComplianceScorer.max_retries
  self_concurrency,\* ComplianceScorer.concurrency
  concurrency,     \* evaluate: the permit count
  pending,         \* evaluate: deque of tasks (section indices)
  in_flight,       \* evaluate: the tasks whose future is in in_flight
  task_attempts,   \* Task.attempts of each section's task
  statuses,        \* evaluate: statuses
  section_results, \* evaluate: section_results
  futures,         \* state of each section's latest future
  concurrency_arg, \* the concurrency argument given to ComplianceScorer(), if any
  submits,         \* number of pool.submit calls made for each section's task
  single_calls,    \* no-sections path: calls of fn made by _with_retries
  scorecard        \* what evaluate returns

planVars == <<duration, markers, target_seconds, max_extension, boundaries,
              last_boundary, target, boundary, candidates>>

audioVars == <<reencode, ffmpeg, use_silence_splitting, target_kbps, max_bytes,
               src_size, files, temp_files, segments, exports, error, idx,
               start, max_ms, playback_rate, reenc, detect_rc, tmp_dir, cleanup>>

scoreVars == <<n_sections, max_retries, self_concurrency, concurrency, pending,
               in_flight, task_attempts, statuses, section_results, futures,
               concurrency_arg, submits, single_calls, scorecard>>

vars == <<pc, planVars, audioVars, scoreVars>>

\* The variables the planner's own steps leave alone.
notPlanVars == <<audioVars, scoreVars>>

\* The playback rate 1.0, in hundredths.
UNIT_RATE == 100

\* reencode_to_mp3_speech has not run: neither path was tried.
NotReencoded ==
  [primary |-> "not_run", fallback |-> "not_run", fallback_runs |-> 0,
   message |-> {}]

\* AudioProcessor.cleanup has not been called.
NoCleanup ==
  [calls |-> 0, i |-> 0, tracked |-> {}, attempted |-> {}, failed |-> {}]

\* The scorer's state while no evaluate call is modelled.
ScoreIdle ==
  /\ n_sections = 0
  /\ max_retries = 0
  /\ self_concurrency = 1
  /\ concurrency = 1
  /\ pending = <<>>
  /\ in_flight = {}
  /\ task_attempts = <<>>
  /\ statuses = <<>>
  /\ section_results = <<>>
  /\ futures = <<>>
  /\ concurrency_arg = <<>>
  /\ submits = <<>>
  /\ single_calls = 0
  /\ scorecard = <<>>

\* The audio pipeline's state while no prepare_audio call is modelled.
AudioIdle ==
  /\ reencode = FALSE
  /\ ffmpeg = FALSE
  /\ use_silence_splitting = FALSE
  /\ target_kbps = TARGET_MP3_KBPS
  /\ max_bytes = SAFETY_MB * MB
  /\ src_size = 0
  /\ files = {}
  /\ temp_files = <<>>
  /\ segments = <<>>
  /\ exports = <<>>
  /\ error = "none"
  /\ idx = 0
  /\ start = 0
  /\ max_ms = 0
  /\ playback_rate = UNIT_RATE
  /\ reenc = NotReencoded
  /\ detect_rc = -1
  /\ tmp_dir = FALSE
  /\ cleanup = NoCleanup

\* ------------------------------------------------- segmentation planner
\* _select_boundary, lines 286-295: the candidate tuples (distance, kind,
\* value); kind 0 is a silence_end marker, kind 1 a silence_start marker.
CandidatesNoLower(tgt, last, mk, ext) ==
  LET window_end == tgt + ext
      Ok(v) == tgt - ext <= v /\ v <= window_end /\ v - last >= ONE_SECOND
  IN  {<<Abs(v - tgt), 0, v>> : v \in {x \in SeqRange(mk.end) : Ok(x)}}
      \cup {<<Abs(v - tgt), 1, v>> : v \in {x \in SeqRange(mk.start) : Ok(x)}}

Candidates(tgt, last, mk, ext) ==
  LET window_end == tgt + ext
      Ok(v) == tgt <= v /\ v <= window_end /\ v - last >= ONE_SECOND
  IN  {<<Abs(v - tgt), 0, v>> : v \in {x \in SeqRange(mk.end) : Ok(x)}}
      \cup {<<Abs(v - tgt), 1, v>> : v \in {x \in SeqRange(mk.start) : Ok(x)}}

\* _select_boundary, line 300: candidates.sort()
SortedCandidates(tgt, last, mk, ext) == SortTuples(Candidates(tgt, last, mk, ext))

\* _select_boundary, lines 297-301
select_boundary(tgt, last, mk, ext) ==
  LET c == SortedCandidates(tgt, last, mk, ext)
  IN  IF c = <<>> THEN Max(tgt, last + ONE_SECOND) ELSE c[1][3]

AdvanceNoTailBreak(dur, tsec, last, sel) ==
  LET b1 == Min(sel, dur)
  IN  IF b1 - last < ONE_SECOND
      THEN LET b2 == Min(dur, last + Max(ONE_SECOND, tsec \div 4))
           IN  [brk |-> b2 >= dur - ONE_SECOND, boundary |-> b2]
      ELSE [brk |-> FALSE, boundary |-> b1]

\* compute_silence_boundaries, lines 320-328: what one loop iteration does
\* with the value sel returned by _select_boundary.  brk: the loop breaks.
Advance(dur, tsec, last, sel) ==
  LET b1 == Min(sel, dur)
  IN  IF b1 >= dur - ONE_SECOND
      THEN [brk |-> TRUE, boundary |-> b1]
      ELSE IF b1 - last < ONE_SECOND
           THEN LET b2 == Min(dur, last + Max(ONE_SECOND, tsec \div 4))
                IN  [brk |-> b2 >= dur - ONE_SECOND, boundary |-> b2]
           ELSE [brk |-> FALSE, boundary |-> b1]

RECURSIVE PlanLoop(_, _, _, _, _, _, _)
\* compute_silence_boundaries, lines 318-335: the while loop and the final
\* append, from the loop state (bs, last, tgt).
PlanLoop(dur, mk, tsec, ext, bs, last, tgt) ==
  IF tgt < dur - ONE_SECOND
  THEN LET r == Advance(dur, tsec, last, select_boundary(tgt, last, mk, ext))
       IN  IF r.brk THEN Append(bs, dur)
           ELSE PlanLoop(dur, mk, tsec, ext, Append(bs, r.boundary),
                         r.boundary, r.boundary + tsec)
  ELSE Append(bs, dur)

\* compute_silence_boundaries as a function of its arguments.
compute_silence_boundaries(dur, mk, tsec, ext) ==
  IF dur <= 0 THEN <<0>>
  ELSE PlanLoop(dur, mk, tsec, ext, <<>>, 0, tsec)

\* ---- inputs
GridTimes(lo, hi) == {k * GridMs : k \in lo..hi}

\* Ascending marker lists with at most n entries.
MarkerLists(n) ==
  {SortedSeq(S) : S \in {T \in SUBSET GridTimes(1, MaxMarkerSteps) : Cardinality(T) <= n}}

\* The inputs of the repository's tests (tests/test_utils.py lines 235-254).
PlanExamples ==
  { [duration |-> 1800000, target_seconds |-> 600000, max_extension |-> 180000,
     markers |-> [start |-> <<590000>>, end |-> <<605000, 1210000>>]],
    [duration |-> 1200000, target_seconds |-> 600000, max_extension |-> 120000,
     markers |-> [start |-> <<>>, end |-> <<>>]] }

PlanInputs ==
  [duration : GridTimes(0, MaxDurSteps),
   target_seconds : GridTimes(-1, MaxTargetSteps),
   max_extension : GridTimes(0, MaxExtSteps),
   markers : [start : MarkerLists(MaxStartMarkers), end : MarkerLists(MaxEndMarkers)]]
  \cup PlanExamples

\* ---- compute_silence_boundaries, step by step
PlanInit ==
  /\ pc = "plan_enter"
  /\ \E in \in PlanInputs :
       /\ duration = in.duration
       /\ markers = in.markers
       /\ target_seconds = in.target_seconds
       /\ max_extension = in.max_extension
  /\ boundaries = <<>>
  /\ last_boundary = 0
  /\ target = 0
  /\ boundary = 0
  /\ candidates = <<>>
  /\ AudioIdle
  /\ ScoreIdle

planArgs == <<duration, markers, target_seconds, max_extension>>

\* lines 311-312
PlanReturnZero ==
  /\ pc = "plan_enter"
  /\ duration <= 0
  /\ boundaries' = <<0>>
  /\ pc' = "plan_done"
  /\ UNCHANGED <<planArgs, last_boundary, target, boundary, candidates>>
  /\ UNCHANGED notPlanVars

\* lines 314-316
PlanEnter ==
  /\ pc = "plan_enter"
  /\ duration > 0
  /\ boundaries' = <<>>
  /\ last_boundary' = 0
  /\ target' = target_seconds
  /\ pc' = "plan_loop"
  /\ UNCHANGED <<planArgs, boundary, candidates>>
  /\ UNCHANGED notPlanVars

\* line 319: boundary = _select_boundary(...)
PlanSelect ==
  /\ pc = "plan_loop"
  /\ target < duration - ONE_SECOND
  /\ candidates' = SortedCandidates(target, last_boundary, markers, max_extension)
  /\ boundary' = select_boundary(target, last_boundary, markers, max_extension)
  /\ pc' = "plan_selected"
  /\ UNCHANGED <<planArgs, boundaries, last_boundary, target>>
  /\ UNCHANGED notPlanVars

\* lines 320-332
PlanAdvance ==
  /\ pc = "plan_selected"
  /\ LET r == Advance(duration, target_seconds, last_boundary, boundary)
     IN  /\ boundary' = r.boundary
         /\ IF r.brk
            THEN /\ pc' = "plan_append"
                 /\ UNCHANGED <<boundaries, last_boundary, target>>
            ELSE /\ boundaries' = Append(boundaries, r.boundary)
                 /\ last_boundary' = r.boundary
                 /\ target' = r.boundary + target_seconds
                 /\ pc' = "plan_loop"
  /\ UNCHANGED <<planArgs, candidates>>
  /\ UNCHANGED notPlanVars

\* line 318, loop condition false
PlanLoopExit ==
  /\ pc = "plan_loop"
  /\ ~(target < duration - ONE_SECOND)
  /\ pc' = "plan_append"
  /\ UNCHANGED planVars
  /\ UNCHANGED notPlanVars

\* lines 334-335
PlanAppend ==
  /\ pc = "plan_append"
  /\ boundaries' = Append(boundaries, duration)
  /\ pc' = "plan_done"
  /\ UNCHANGED <<planArgs, last_boundary, target, boundary, candidates>>
  /\ UNCHANGED notPlanVars

PlanNext ==
  \/ PlanReturnZero
  \/ PlanEnter
  \/ PlanSelect
  \/ PlanAdvance
  \/ PlanLoopExit
  \/ PlanAppend

SpecPlan == PlanInit /\ [][PlanNext]_vars

\* ------------------------------------------------------ planner properties
Gaps(bs) == {bs[i + 1] - bs[i] : i \in 1..(Len(bs) - 1)}

\* C1: for every duration > 0 the list compute_silence_boundaries returns is
\* strictly increasing, ends with the duration, and has no two consecutive
\* elements closer than 1.0 second.
C1_BoundariesSpaced ==
  (pc = "plan_done" /\ duration > 0) =>
    /\ Len(boundaries) >= 1
    /\ boundaries[Len(boundaries)] = duration
    /\ \A i \in 1..(Len(boundaries) - 1) : boundaries[i] < boundaries[i + 1]
    /\ \A g \in Gaps(boundaries) : g >= ONE_SECOND

\* A returned list with three boundaries, one of them a silence marker.
C1_Witness ==
  /\ pc = "plan_done"
  /\ Len(boundaries) >= 3
  /\ boundaries[1] \in SeqRange(markers.end) \cup SeqRange(markers.start)

NoMarkers == markers.start = <<>> /\ markers.end = <<>>

\* C2 as stated: with no markers the list is T, 2T, ..., then D, each step at
\* least 1 second.
C2_FixedStepsOfT ==
  (pc = "plan_done" /\ NoMarkers) =>
    /\ Len(boundaries) >= 1
    /\ boundaries[Len(boundaries)] = duration
    /\ \A i \in 1..(Len(boundaries) - 1) : boundaries[i] = i * target_seconds
    /\ \A g \in Gaps(boundaries) : g >= ONE_SECOND

\* C2 (amended): with no markers the list is S, 2S, ..., nS followed by D,
\* where the step S is max(T, 1.0 s) and nS are the multiples of S below
\* D - 1.0 s.
C2_FixedStepsFloored ==
  (pc = "plan_done" /\ NoMarkers) =>
    LET S == Max(target_seconds, ONE_SECOND)
        n == Len(boundaries) - 1
    IN  /\ n >= 0
        /\ boundaries[n + 1] = duration
        /\ \A i \in 1..n : boundaries[i] = i * S
        /\ n >= 1 => n * S < duration - ONE_SECOND
        /\ (n + 1) * S >= duration - ONE_SECOND

\* A marker-free plan whose target is below one second and that has cut twice.
C2_Witness ==
  /\ pc = "plan_done"
  /\ NoMarkers
  /\ target_seconds < ONE_SECOND
  /\ Len(boundaries) >= 3

\* The markers of either kind that qualify at the current step.
Qualifying(kind) ==
  {v \in SeqRange(IF kind = 0 THEN markers.end ELSE markers.start) :
     /\ target <= v
     /\ v <= target + max_extension
     /\ v - last_boundary >= ONE_SECOND}

\* C3: at each planning step, when some marker qualifies, the boundary
\* _select_boundary returns is a qualifying marker closest to target, taken
\* from the silence_end list when one of them is at that distance, and never
\* a marker before target.
C3_SelectsNearestQualifying ==
  (pc = "plan_selected" /\ Qualifying(0) \cup Qualifying(1) # {}) =>
    /\ boundary \in Qualifying(0) \cup Qualifying(1)
    /\ boundary >= target
    /\ \A v \in Qualifying(0) \cup Qualifying(1) :
         Abs(boundary - target) <= Abs(v - target)
    /\ candidates # <<>>
    /\ candidates[1][3] = boundary
    /\ (\E v \in Qualifying(0) : Abs(v - target) = Abs(boundary - target))
         => candidates[1][2] = 0

\* A step where an end and a start marker qualify at the same distance while
\* another marker lies before target.
C3_Witness ==
  /\ pc = "plan_selected"
  /\ \E v \in Qualifying(0) : v \in Qualifying(1) /\ v = boundary
  /\ \E v \in SeqRange(markers.end) \cup SeqRange(markers.start) :
       v < target /\ target - v < boundary - target

\* ---------------------------------------------------------- audio pipeline
SrcPath == <<"src", 0>>
\* reencode_to_mp3_speech: out_path
Mp3Path == <<"mp3", 0>>
\* split_mp3_by_silence: seg_path of the 1-based chunk number n
ChunkPath(n) == <<"chunk", n>>
\* split_mp3_under_limit: seg_path of part idx
PartPath(n) == <<"part", n>>

Exists(p) == \E f \in files : f.path = p
\* path.stat().st_size
FileSize(p) == (CHOOSE f \in files : f.path = p).size
WriteFile(fs, p, sz) == {f \in fs : f.path # p} \cup {[path |-> p, size |-> sz]}

PreparedSegment(p, s, e) == [type |-> "PreparedSegment", path |-> p, start |-> s, end |-> e]

\* Bytes of a constant-bitrate MP3 of len_ms milliseconds at kbps kilobits per
\* second (kbps * 1000 / 8 bytes per second): bytes are linear in milliseconds.
EncodedBytes(len_ms, kbps) == (len_ms * kbps) \div 8

\* split_mp3_under_limit lines 207-210: b_per_ms = size / max(dur_ms, 1) and
\* max_ms = int(max_bytes / max(b_per_ms, 1e-6)), in exact arithmetic.
MaxMs(size, dur_ms, maxb) ==
  LET d == Max(dur_ms, 1)
  IN  IF size <= d \div 1000000 THEN maxb * 1000000
      ELSE (maxb * d) \div size

SkipSegmentUnderOneSecond(s, e) == e - s <= ONE_SECOND

\* split_mp3_by_silence line 376
SkipSegment(s, e) == e - s <= HALF_SECOND

\* The outcomes of exporting one segment: the encoder command succeeded and
\* left a non-empty file; or it failed (non-zero exit, missing or empty
\* output) and the in-process export then left a non-empty file or did not.
ExportOutcomes ==
  { [primary |-> TRUE, fallback |-> "not_run"],
    [primary |-> FALSE, fallback |-> "ok"],
    [primary |-> FALSE, fallback |-> "failed"] }

ExportResultUnchecked(o) ==
  IF o.primary THEN "primary" ELSE "fallback"

\* Without the in-process slicing of lines 415-420: an encoder failure is final.
ExportResultNoFallback(o) ==
  IF o.primary THEN "primary" ELSE "failed"

\* split_mp3_by_silence lines 410-424: which path produced the segment file,
\* or "failed" when RuntimeError is raised.
ExportResult(o) ==
  IF o.primary THEN "primary"
  ELSE IF o.fallback = "ok" THEN "fallback"
  ELSE "failed"

\* split_mp3_by_silence line 370
Cuts == <<0>> \o boundaries

KbpsSet == {16 * k : k \in 1..MaxKbpsSteps}
CapSet == {k * CapStepBytes : k \in 1..MaxCapSteps}
SrcSizes == {10 * MB, 24 * MB, 30 * MB}
NoMarkerLists == [start |-> <<>>, end |-> <<>>]

\* The markers detect_silence_markers may return.
DetectedMarkers ==
  [start : MarkerLists(MaxDetected), end : MarkerLists(MaxDetected)]

\* tests/test_utils.py lines 256-287 with the markers of the end-to-end example.
ExampleMarkers == [start |-> <<>>, end |-> <<605000, 1210000>>]

\* Playback rates other than 1.0, in hundredths: -1.0, 0, 0.5, 1.5
\* (ui.py offers 0.5 .. 2.0; the parameter itself is any float).
PlaybackRates == {-UNIT_RATE, 0, UNIT_RATE \div 2, UNIT_RATE + UNIT_RATE \div 2}

\* Caps, in bytes, below the 4 bytes per millisecond of a 32 kbps file.
TinyCaps == {0, 3}

\* The calls of prepare_audio that are modelled.  Arguments a path never reads
\* keep their default.
AudioInputs ==
  \* re-encoding disabled: lines 74-82
  [reencode : {FALSE}, ffmpeg : {TRUE}, use_silence_splitting : {TRUE},
   target_kbps : {TARGET_MP3_KBPS}, max_bytes : {SAFETY_MB * MB},
   src_size : SrcSizes, duration : GridTimes(0, MaxDurSteps),
   target_seconds : {600000}, max_extension : {240000}, playback_rate : {UNIT_RATE}]
  \cup
  \* no ffmpeg: lines 46-53
  [reencode : {TRUE}, ffmpeg : {FALSE}, use_silence_splitting : {TRUE},
   target_kbps : {TARGET_MP3_KBPS}, max_bytes : {SAFETY_MB * MB},
   src_size : SrcSizes, duration : {0},
   target_seconds : {600000}, max_extension : {240000}, playback_rate : {UNIT_RATE}]
  \cup
  \* silence-aware splitting: lines 60-67
  [reencode : {TRUE}, ffmpeg : {TRUE}, use_silence_splitting : {TRUE},
   target_kbps : {TARGET_MP3_KBPS}, max_bytes : {CapStepBytes, MaxCapSteps * CapStepBytes},
   src_size : {10 * MB}, duration : GridTimes(0, MaxDurSteps),
   target_seconds : GridTimes(1, MaxTargetSteps),
   max_extension : {0, MaxExtSteps * GridMs}, playback_rate : {UNIT_RATE}]
  \cup
  { [reencode |-> TRUE, ffmpeg |-> TRUE, use_silence_splitting |-> TRUE,
     target_kbps |-> TARGET_MP3_KBPS, max_bytes |-> SAFETY_MB * MB,
     src_size |-> 10 * MB, duration |-> 1800000,
     target_seconds |-> 600000, max_extension |-> 240000,
     playback_rate |-> UNIT_RATE] }
  \cup
  \* size-based splitting: lines 68-69
  [reencode : {TRUE}, ffmpeg : {TRUE}, use_silence_splitting : {FALSE},
   target_kbps : KbpsSet, max_bytes : CapSet,
   src_size : {10 * MB}, duration : GridTimes(0, MaxDurSteps),
   target_seconds : {600000}, max_extension : {240000}, playback_rate : {UNIT_RATE}]
  \cup
  \* playback rates other than 1.0: invalid ones (<= 0), slower, faster
  [reencode : BOOLEAN, ffmpeg : BOOLEAN, use_silence_splitting : {FALSE},
   target_kbps : {TARGET_MP3_KBPS}, max_bytes : {MaxCapSteps * CapStepBytes},
   src_size : {10 * MB, 24 * MB}, duration : {0, MaxDurSteps * GridMs},
   target_seconds : {600000}, max_extension : {240000},
   playback_rate : PlaybackRates]
  \cup
  \* caps below the file's bytes per millisecond, and zero
  [reencode : {TRUE}, ffmpeg : {TRUE}, use_silence_splitting : {FALSE},
   target_kbps : {TARGET_MP3_KBPS}, max_bytes : TinyCaps,
   src_size : {10 * MB}, duration : {MaxDurSteps * GridMs},
   target_seconds : {600000}, max_extension : {240000},
   playback_rate : {UNIT_RATE}]
  \cup
  \* a 10000-byte file with a 2300-byte cap (100 MB and 23 MB, scaled)
  { [reencode |-> TRUE, ffmpeg |-> TRUE, use_silence_splitting |-> FALSE,
     target_kbps |-> TARGET_MP3_KBPS, max_bytes |-> 2300,
     src_size |-> 10 * MB, duration |-> 2500,
     target_seconds |-> 600000, max_extension |-> 240000,
     playback_rate |-> UNIT_RATE] }

\* The state in which prepare_audio is entered with one of the calls in Inputs.
AudioInitFrom(Inputs) ==
  /\ pc = "prep_enter"
  /\ \E in \in Inputs :
       /\ reencode = in.reencode
       /\ ffmpeg = in.ffmpeg
       /\ use_silence_splitting = in.use_silence_splitting
       /\ target_kbps = in.target_kbps
       /\ max_bytes = in.max_bytes
       /\ src_size = in.src_size
       /\ duration = in.duration
       /\ target_seconds = in.target_seconds
       /\ max_extension = in.max_extension
       /\ playback_rate = in.playback_rate
  /\ markers = NoMarkerLists
  /\ boundaries = <<>>
  /\ last_boundary = 0
  /\ target = 0
  /\ boundary = 0
  /\ candidates = <<>>
  /\ files = {}
  /\ temp_files = <<>>
  /\ segments = <<>>
  /\ exports = <<>>
  /\ error = "none"
  /\ idx = 0
  /\ start = 0
  /\ max_ms = 0
  /\ reenc = NotReencoded
  /\ detect_rc = -1
  /\ tmp_dir = FALSE
  /\ cleanup = NoCleanup
  /\ ScoreIdle

AudioInit == AudioInitFrom(AudioInputs)

audioArgs == <<reencode, ffmpeg, use_silence_splitting, target_kbps, max_bytes,
               src_size, duration, target_seconds, max_extension, playback_rate>>
\* What the steps outside reencode_to_mp3_speech, detect_silence_markers and
\* cleanup leave alone.
auxVars == <<reenc, detect_rc, tmp_dir, cleanup>>
planLocals == <<last_boundary, target, boundary, candidates>>

\* The size of the re-encoded file: constant bitrate target_kbps.
Mp3Size == EncodedBytes(duration, target_kbps)

\* prepare_audio lines 40-43
PrepUpload ==
  /\ pc = "prep_enter"
  /\ files' = WriteFile(files, SrcPath, src_size)
  /\ temp_files' = Append(temp_files, SrcPath)
  /\ segments' = <<>>
  /\ tmp_dir' = TRUE
  /\ pc' = "prep_branch"
  /\ UNCHANGED <<audioArgs, planLocals, markers, boundaries, exports, error, idx,
                 start, max_ms>>
  /\ UNCHANGED <<scoreVars, reenc, detect_rc, cleanup>>

\* prepare_audio lines 45-48: return [src_path]
PrepNoFfmpegSmall ==
  /\ pc = "prep_branch"
  /\ reencode /\ ~ffmpeg
  /\ src_size <= MAX_UPLOAD_MB * MB
  /\ segments' = <<[type |-> "Path", path |-> SrcPath]>>
  /\ pc' = "prep_returned"
  /\ UNCHANGED <<audioArgs, planLocals, markers, boundaries, files, temp_files,
                 exports, error, idx, start, max_ms>>
  /\ UNCHANGED <<scoreVars, auxVars>>

\* prepare_audio lines 49-53
PrepNoFfmpegLarge ==
  /\ pc = "prep_branch"
  /\ reencode /\ ~ffmpeg
  /\ ~(src_size <= MAX_UPLOAD_MB * MB)
  /\ error' = "ffmpeg_missing"
  /\ pc' = "prep_raised"
  /\ UNCHANGED <<audioArgs, planLocals, markers, boundaries, files, temp_files,
                 segments, exports, idx, start, max_ms>>
  /\ UNCHANGED <<scoreVars, auxVars>>

\* reencode_to_mp3_speech lines 108-181: what the primary path may end with.
\* "invalid_rate" is _build_atempo_filters' ValueError (lines 38-39), raised
\* before the encoder command is run.
PrimaryOutcomes ==
  {"ok", "invalid_rate", "command_missing", "nonzero_exit", "no_output",
   "decode_error", "no_duration", "too_small"}

\* reencode_to_mp3_speech lines 138-181: the outcomes the arguments allow
PrimaryPossible(o) ==
  IF playback_rate # UNIT_RATE /\ playback_rate <= 0 THEN o = "invalid_rate"
  ELSE CASE o = "invalid_rate" -> FALSE
         [] o = "ok" -> duration > 0 /\ Mp3Size >= MIN_MP3_BYTES
         [] o = "no_duration" -> duration = 0
         [] o = "too_small" -> duration > 0 /\ Mp3Size < MIN_MP3_BYTES
         [] OTHER -> TRUE

RunsFallbackOnCommandErrors(o) == o \in {"command_missing", "nonzero_exit"}

\* reencode_to_mp3_speech lines 183-188: the except clauses that call
\* _export_with_pydub
RunsFallback(o) == o # "ok"

\* _export_with_pydub lines 72-100: the in-process export can succeed
FallbackPossible ==
  \/ playback_rate <= 0
  \/ duration > 0 /\ Mp3Size >= MIN_MP3_BYTES

\* reencode_to_mp3_speech lines 108-181: the primary path is taken
ReencPrimary ==
  /\ pc = "prep_branch"
  /\ reencode /\ ffmpeg
  /\ \E o \in PrimaryOutcomes :
       /\ PrimaryPossible(o)
       /\ reenc' = [reenc EXCEPT !.primary = o]
  /\ pc' = "reenc_primary_done"
  /\ UNCHANGED <<audioArgs, planLocals, markers, boundaries, files, temp_files,
                 segments, exports, error, idx, start, max_ms, detect_rc, tmp_dir,
                 cleanup>>
  /\ UNCHANGED scoreVars

\* reencode_to_mp3_speech lines 183-188 with _export_with_pydub, lines 71-106:
\* the primary path raised and the in-process export runs
ReencFallback ==
  /\ pc = "reenc_primary_done"
  /\ RunsFallback(reenc.primary)
  /\ \E ok \in {b \in BOOLEAN : b => FallbackPossible} :
       reenc' = [reenc EXCEPT !.fallback = IF ok THEN "ok" ELSE "failed",
                              !.fallback_runs = @ + 1]
  /\ pc' = "reenc_fallback_done"
  /\ UNCHANGED <<audioArgs, planLocals, markers, boundaries, files, temp_files,
                 segments, exports, error, idx, start, max_ms, detect_rc, tmp_dir,
                 cleanup>>
  /\ UNCHANGED scoreVars

\* prepare_audio lines 55-58: reencode_to_mp3_speech returned out_path, a file
\* with positive duration and at least 1 KB (utils.py lines 147-181, 89-100).
PrepReencodeOk ==
  /\ \/ pc = "reenc_primary_done" /\ reenc.primary = "ok"
     \/ pc = "reenc_fallback_done" /\ reenc.fallback = "ok"
  /\ files' = WriteFile(files, Mp3Path, Max(Mp3Size, MIN_MP3_BYTES))
  /\ temp_files' = Append(temp_files, Mp3Path)
  /\ reenc' = NotReencoded
  /\ pc' = "prep_split"
  /\ UNCHANGED <<audioArgs, planLocals, markers, boundaries, segments, exports,
                 error, idx, start, max_ms, detect_rc, tmp_dir, cleanup>>
  /\ UNCHANGED scoreVars

\* prepare_audio line 55: reencode_to_mp3_speech raised: the composite
\* RuntimeError of lines 101-106 after both paths failed, or the primary
\* path's own exception when no except clause ran the fallback.  out_path
\* may have been written by a path that failed its checks.
PrepReencodeFail ==
  /\ \/ /\ pc = "reenc_fallback_done"
        /\ reenc.fallback = "failed"
        /\ reenc' = [reenc EXCEPT !.message = {reenc.primary, "fallback_failed"}]
     \/ /\ pc = "reenc_primary_done"
        /\ reenc.primary # "ok"
        /\ ~RunsFallback(reenc.primary)
        /\ reenc' = [reenc EXCEPT !.message = {reenc.primary}]
  /\ \E left \in BOOLEAN :
       files' = IF left THEN WriteFile(files, Mp3Path, 0) ELSE files
  /\ error' = "reencode"
  /\ pc' = "prep_raised"
  /\ UNCHANGED <<audioArgs, planLocals, markers, boundaries, temp_files,
                 segments, exports, idx, start, max_ms, detect_rc, tmp_dir, cleanup>>
  /\ UNCHANGED scoreVars

\* prepare_audio lines 74-79
PrepDirectOversize ==
  /\ pc = "prep_branch"
  /\ ~reencode
  /\ src_size > SAFETY_MB * MB
  /\ error' = "oversize"
  /\ pc' = "prep_raised"
  /\ UNCHANGED <<audioArgs, planLocals, markers, boundaries, files, temp_files,
                 segments, exports, idx, start, max_ms>>
  /\ UNCHANGED <<scoreVars, auxVars>>

\* prepare_audio lines 80-84
PrepDirect ==
  /\ pc = "prep_branch"
  /\ ~reencode
  /\ ~(src_size > SAFETY_MB * MB)
  /\ segments' = <<PreparedSegment(SrcPath, 0, duration)>>
  /\ pc' = "prep_returned"
  /\ UNCHANGED <<audioArgs, planLocals, markers, boundaries, files, temp_files,
                 exports, error, idx, start, max_ms>>
  /\ UNCHANGED <<scoreVars, auxVars>>

\* The return codes of the silencedetect process: success, failure.
DetectReturnCodes == {0, 1}

\* A non-zero return code taken for an analysis that found no silence.
DetectRaisesNever(rc) == FALSE

\* detect_silence_markers lines 252-256: RuntimeError on a non-zero return code
DetectRaises(rc) == rc # 0

\* split_mp3_by_silence line 359: detect_silence_markers raised (lines 252-256)
SilDetectFail ==
  /\ pc = "prep_split"
  /\ use_silence_splitting
  /\ \E rc \in DetectReturnCodes :
       /\ DetectRaises(rc)
       /\ detect_rc' = rc
  /\ error' = "silence_detection"
  /\ pc' = "prep_raised"
  /\ UNCHANGED <<audioArgs, planLocals, markers, boundaries, files, temp_files,
                 segments, exports, idx, start, max_ms>>
  /\ UNCHANGED <<scoreVars, reenc, tmp_dir, cleanup>>

\* split_mp3_by_silence lines 356-365
SilPlan ==
  /\ pc = "prep_split"
  /\ use_silence_splitting
  /\ \E rc \in DetectReturnCodes :
       /\ ~DetectRaises(rc)
       /\ detect_rc' = rc
       /\ \E mk \in IF rc = 0 THEN DetectedMarkers \cup {ExampleMarkers}
                     ELSE {NoMarkerLists} :
            /\ markers' = mk
            /\ boundaries' = compute_silence_boundaries(duration, mk,
                                                        target_seconds,
                                                        max_extension)
  /\ pc' = "sil_planned"
  /\ UNCHANGED <<audioArgs, planLocals, files, temp_files, segments, exports,
                 error, idx, start, max_ms>>
  /\ UNCHANGED <<scoreVars, reenc, tmp_dir, cleanup>>

\* split_mp3_by_silence lines 367-368
SilSingle ==
  /\ pc = "sil_planned"
  /\ Len(boundaries) <= 1
  /\ segments' = <<PreparedSegment(Mp3Path, 0, duration)>>
  /\ pc' = "sil_returned"
  /\ UNCHANGED <<audioArgs, planLocals, markers, boundaries, files, temp_files,
                 exports, error, idx, start, max_ms>>
  /\ UNCHANGED <<scoreVars, auxVars>>

\* split_mp3_by_silence lines 370-373
SilCuts ==
  /\ pc = "sil_planned"
  /\ ~(Len(boundaries) <= 1)
  /\ segments' = <<>>
  /\ idx' = 0
  /\ pc' = "sil_loop"
  /\ UNCHANGED <<audioArgs, planLocals, markers, boundaries, files, temp_files,
                 exports, error, start, max_ms>>
  /\ UNCHANGED <<scoreVars, auxVars>>

\* split_mp3_by_silence lines 373-425: one iteration of the export loop
SilIterate ==
  /\ pc = "sil_loop"
  /\ idx < Len(Cuts) - 1
  /\ LET s == Cuts[idx + 1]
         e == Cuts[idx + 2]
         seg_path == ChunkPath(idx + 1)
     IN  IF SkipSegment(s, e)
         THEN /\ idx' = idx + 1
              /\ UNCHANGED <<pc, files, segments, exports, error>>
         ELSE \E o \in ExportOutcomes :
                /\ exports' = Append(exports, o)
                /\ IF ExportResult(o) = "failed"
                   THEN /\ error' = "export"
                        /\ pc' = "prep_raised"
                        /\ \E left \in BOOLEAN :
                             files' = IF left THEN WriteFile(files, seg_path, 0)
                                      ELSE files
                        /\ UNCHANGED <<segments, idx>>
                   ELSE /\ files' = WriteFile(files, seg_path,
                                              EncodedBytes(e - s, TARGET_MP3_KBPS))
                        /\ segments' = Append(segments, PreparedSegment(seg_path, s, e))
                        /\ idx' = idx + 1
                        /\ UNCHANGED <<pc, error>>
  /\ UNCHANGED <<audioArgs, planLocals, markers, boundaries, temp_files, start,
                 max_ms>>
  /\ UNCHANGED <<scoreVars, auxVars>>

\* split_mp3_by_silence lines 427-430
SilReturn ==
  /\ pc = "sil_loop"
  /\ ~(idx < Len(Cuts) - 1)
  /\ segments' = IF segments = <<>>
                 THEN <<PreparedSegment(Mp3Path, 0, duration)>>
                 ELSE segments
  /\ pc' = "sil_returned"
  /\ UNCHANGED <<audioArgs, planLocals, markers, boundaries, files, temp_files,
                 exports, error, idx, start, max_ms>>
  /\ UNCHANGED <<scoreVars, auxVars>>

\* split_mp3_under_limit lines 205-213: the file is within the cap
LimWhole ==
  /\ pc = "prep_split"
  /\ ~use_silence_splitting
  /\ max_ms' = MaxMs(FileSize(Mp3Path), duration, max_bytes)
  /\ FileSize(Mp3Path) <= max_bytes
  /\ segments' = <<PreparedSegment(Mp3Path, 0, duration)>>
  /\ pc' = "lim_returned"
  /\ UNCHANGED <<audioArgs, planLocals, markers, boundaries, files, temp_files,
                 exports, error, idx, start>>
  /\ UNCHANGED <<scoreVars, auxVars>>

\* split_mp3_under_limit lines 205-217: the file is over the cap
LimEnter ==
  /\ pc = "prep_split"
  /\ ~use_silence_splitting
  /\ max_ms' = MaxMs(FileSize(Mp3Path), duration, max_bytes)
  /\ ~(FileSize(Mp3Path) <= max_bytes)
  /\ segments' = <<>>
  /\ start' = 0
  /\ idx' = 1
  /\ pc' = "lim_loop"
  /\ UNCHANGED <<audioArgs, planLocals, markers, boundaries, files, temp_files,
                 exports, error>>
  /\ UNCHANGED <<scoreVars, auxVars>>

\* split_mp3_under_limit lines 218-225: one iteration of the cutting loop
LimIterate ==
  /\ pc = "lim_loop"
  /\ start < duration
  /\ idx <= MaxParts
  /\ LET end == Min(start + max_ms, duration)
         seg_path == PartPath(idx)
     IN  /\ files' = WriteFile(files, seg_path,
                               EncodedBytes(end - start, TARGET_MP3_KBPS))
         /\ segments' = Append(segments, PreparedSegment(seg_path, start, end))
         /\ start' = end
         /\ idx' = idx + 1
  /\ UNCHANGED <<pc, audioArgs, planLocals, markers, boundaries, temp_files,
                 exports, error, max_ms>>
  /\ UNCHANGED <<scoreVars, auxVars>>

\* split_mp3_under_limit line 226
LimReturn ==
  /\ pc = "lim_loop"
  /\ ~(start < duration)
  /\ pc' = "lim_returned"
  /\ UNCHANGED <<audioArgs, planLocals, markers, boundaries, files, temp_files,
                 segments, exports, error, idx, start, max_ms>>
  /\ UNCHANGED <<scoreVars, auxVars>>

\* prepare_audio lines 71-73 and 84
PrepTrack ==
  /\ pc \in {"sil_returned", "lim_returned"}
  /\ temp_files' = temp_files \o
       SelectSeq([i \in DOMAIN segments |-> segments[i].path],
                 LAMBDA p : p # Mp3Path)
  /\ pc' = "prep_returned"
  /\ UNCHANGED <<audioArgs, planLocals, markers, boundaries, files, segments,
                 exports, error, idx, start, max_ms>>
  /\ UNCHANGED <<scoreVars, auxVars>>

AudioNext ==
  \/ PrepUpload
  \/ PrepNoFfmpegSmall
  \/ PrepNoFfmpegLarge
  \/ ReencPrimary
  \/ ReencFallback
  \/ PrepReencodeOk
  \/ PrepReencodeFail
  \/ PrepDirectOversize
  \/ PrepDirect
  \/ SilDetectFail
  \/ SilPlan
  \/ SilSingle
  \/ SilCuts
  \/ SilIterate
  \/ SilReturn
  \/ LimWhole
  \/ LimEnter
  \/ LimIterate
  \/ LimReturn
  \/ PrepTrack

SpecAudio == AudioInit /\ [][AudioNext]_vars

\* ------------------------------------------- AudioProcessor.cleanup
\* One try/except around the whole loop: the first error ends the loop.
AfterRemovalErrorStop(i, n) == n + 1

\* cleanup lines 88-99: the try/except is inside the loop, so after an error
\* on one file the loop goes on with the next.
AfterRemovalError(i, n) == i + 1

\* Path.unlink
Remove(fs, p) == {f \in fs : f.path # p}

\* app.py lines 197-199: the caller calls cleanup() once prepare_audio has
\* returned or raised, and may call it again (audio_processor.py 102-104).
CleanupCall ==
  /\ pc \in {"prep_returned", "prep_raised"}
  /\ cleanup.i = 0
  /\ cleanup.calls < MaxCleanups
  /\ cleanup' = [cleanup EXCEPT !.calls = @ + 1,
                                !.i = 1,
                                !.tracked = IF cleanup.calls = 0
                                            THEN SeqRange(temp_files) ELSE @]
  /\ UNCHANGED <<pc, audioArgs, planLocals, markers, boundaries, files,
                 temp_files, segments, exports, error, idx, start, max_ms>>
  /\ UNCHANGED <<scoreVars, reenc, detect_rc, tmp_dir>>

\* cleanup lines 88-99: one iteration. unlink either removes the file or
\* raises; rmdir removes the directory only when it is empty and raises
\* otherwise; every exception is swallowed.
CleanupFile ==
  /\ cleanup.i \in 1..Len(temp_files)
  /\ LET p == temp_files[cleanup.i]
         n == Len(temp_files)
     IN  \E unlink_fails \in BOOLEAN :
           /\ unlink_fails =>
                (Exists(p) /\ Cardinality(cleanup.failed) < MaxUnlinkFailures)
           /\ IF unlink_fails
              THEN /\ cleanup' = [cleanup EXCEPT !.i = AfterRemovalError(@, n),
                                                 !.attempted = @ \cup {p},
                                                 !.failed = @ \cup {p}]
                   /\ UNCHANGED <<files, tmp_dir>>
              ELSE /\ files' = Remove(files, p)
                   /\ tmp_dir' = (tmp_dir /\ files' # {})
                   /\ cleanup' = [cleanup EXCEPT
                        !.i = IF tmp_dir /\ files' # {}
                              THEN AfterRemovalError(@, n) ELSE @ + 1,
                        !.attempted = @ \cup {p}]
  /\ UNCHANGED <<pc, audioArgs, planLocals, markers, boundaries, temp_files,
                 segments, exports, error, idx, start, max_ms>>
  /\ UNCHANGED <<scoreVars, reenc, detect_rc>>

\* cleanup line 100
CleanupClear ==
  /\ cleanup.i > Len(temp_files)
  /\ temp_files' = <<>>
  /\ cleanup' = [cleanup EXCEPT !.i = 0]
  /\ UNCHANGED <<pc, audioArgs, planLocals, markers, boundaries, files,
                 segments, exports, error, idx, start, max_ms>>
  /\ UNCHANGED <<scoreVars, reenc, detect_rc, tmp_dir>>

\* A prepare_audio call with the default bitrate, chunk target, extension and
\* playback rate.
PrepareCall(re, ff, sil, cap, size, dur) ==
  [reencode |-> re, ffmpeg |-> ff, use_silence_splitting |-> sil,
   target_kbps |-> TARGET_MP3_KBPS, max_bytes |-> cap, src_size |-> size,
   duration |-> dur, target_seconds |-> 600000, max_extension |-> 240000,
   playback_rate |-> UNIT_RATE]

\* The calls of prepare_audio that cleanup is followed after: one or two for
\* each branch of prepare_audio.
CleanupInputs ==
  { PrepareCall(TRUE, FALSE, TRUE, SAFETY_MB * MB, sz, 0) :
      sz \in {10 * MB, 30 * MB} }
  \cup
  { PrepareCall(FALSE, TRUE, TRUE, SAFETY_MB * MB, sz, GridMs) :
      sz \in {10 * MB, 30 * MB} }
  \cup
  { PrepareCall(TRUE, TRUE, TRUE, SAFETY_MB * MB, 10 * MB, d) :
      d \in {GridMs, 1800000} }
  \cup
  { PrepareCall(TRUE, TRUE, FALSE, 2300, 10 * MB, d) : d \in {GridMs, 2500} }

CleanupInit == AudioInitFrom(CleanupInputs)

CleanupNext ==
  \/ AudioNext
  \/ CleanupCall
  \/ CleanupFile
  \/ CleanupClear

SpecCleanup == CleanupInit /\ [][CleanupNext]_vars


\* --------------------------------------------------- pipeline properties
\* The segments are in time order and tile [0, dur]: the first starts at 0,
\* each starts where the previous one ends, the last ends at dur.
Tiles(segs, dur) ==
  /\ Len(segs) >= 1
  /\ segs[1].start = 0
  /\ segs[Len(segs)].end = dur
  /\ \A i \in 1..Len(segs) : segs[i].start < segs[i].end
  /\ \A i \in 1..(Len(segs) - 1) : segs[i + 1].start = segs[i].end

\* C4: when every per-segment export succeeds, the segments
\* split_mp3_by_silence returns are in time order and tile the recording.
C4_SilenceSegmentsTile ==
  pc = "sil_returned" => Tiles(segments, duration)

\* The end-to-end example: 1800 s, target 600 s, extension 240 s, end markers
\* 605 s and 1210 s give [0,605), [605,1210), [1210,1800).
C4_Witness ==
  /\ pc = "sil_returned"
  /\ segments = << PreparedSegment(ChunkPath(1), 0, 605000),
                   PreparedSegment(ChunkPath(2), 605000, 1210000),
                   PreparedSegment(ChunkPath(3), 1210000, 1800000) >>

BothFailed(o) == ~o.primary /\ o.fallback = "failed"

\* C5 as stated: when every export attempt fails (encoder and in-process
\* fallback both), split_mp3_by_silence does not raise and returns the whole
\* source as its single segment.
C5_WholeFileWhenExportsFail ==
  (exports # <<>> /\ \A i \in DOMAIN exports : BothFailed(exports[i])) =>
    /\ pc # "prep_raised"
    /\ pc \in {"sil_returned", "prep_returned"} =>
         segments = <<PreparedSegment(Mp3Path, 0, duration)>>

\* C5 (amended): split_mp3_by_silence never returns an empty list, and an
\* export attempt whose encoder and in-process fallback both fail makes it
\* raise instead of returning.
C5_NonEmptyOrRaises ==
  /\ pc = "sil_returned" => Len(segments) >= 1
  /\ (exports # <<>> /\ BothFailed(exports[Len(exports)])) =>
       (pc = "prep_raised" /\ error = "export")

\* The first planned segment's export failed on both paths and the call raised.
C5_Witness ==
  /\ pc = "prep_raised"
  /\ error = "export"
  /\ Len(exports) = 1
  /\ BothFailed(exports[1])
  /\ Len(Cuts) >= 3

OverCap == Exists(Mp3Path) /\ FileSize(Mp3Path) > max_bytes

\* C6: every segment split_mp3_under_limit returns for a file over the cap
\* has a size of at most the cap, whatever bitrate the file was re-encoded at.
C6_PartsWithinCap ==
  (pc = "lim_returned" /\ OverCap) =>
    \A i \in DOMAIN segments :
      Exists(segments[i].path) /\ FileSize(segments[i].path) <= max_bytes

\* The longest part, in milliseconds, whose exported file is within the cap.
LongestFit ==
  CHOOSE n \in 0..duration :
    /\ EncodedBytes(n, TARGET_MP3_KBPS) <= max_bytes
    /\ \A m \in (n + 1)..duration : EncodedBytes(m, TARGET_MP3_KBPS) > max_bytes

\* C7: for a file over the cap the segments split_mp3_under_limit returns
\* tile the full duration, each is within the cap, and no smaller number of
\* segments within the cap covers the duration.
C7_PartsTileMinimal ==
  (pc = "lim_returned" /\ OverCap) =>
    /\ Tiles(segments, duration)
    /\ \A i \in DOMAIN segments : FileSize(segments[i].path) <= max_bytes
    /\ (Len(segments) - 1) * LongestFit < duration

\* C8: whenever prepare_audio returns, the result is a non-empty list of
\* PreparedSegment with start >= 0 and end >= start.
C8_ReturnsPreparedSegments ==
  pc = "prep_returned" =>
    /\ Len(segments) >= 1
    /\ \A i \in DOMAIN segments :
         /\ segments[i].type = "PreparedSegment"
         /\ segments[i].start >= 0
         /\ segments[i].end >= segments[i].start

\* C9: every segment prepare_audio returns after re-encoding has a size of
\* at most the cap, under silence-aware and under size-based splitting.
C9_CapRespected ==
  (pc = "prep_returned" /\ reencode /\ ffmpeg) =>
    \A i \in DOMAIN segments : FileSize(segments[i].path) <= max_bytes

\* ------------------------------------------------------------ aggregation
\* Python's None is the empty tuple and a present value v the tuple <<v>>.
None == <<>>
Some(v) == <<v>>

RECURSIVE GCD(_, _)
GCD(a, b) == IF b = 0 THEN a ELSE GCD(b, a % b)

\* The quotient n / d (d > 0) of two integers, kept exact as a reduced fraction.
Quotient(n, d) == LET g == GCD(Abs(n), d) IN <<n \div g, d \div g>>

\* The text of the neutral payload's suggestedImprovements entry, line 322.
FALLBACK_NOTE == "Automatic fallback due to repeated errors"

\* _aggregate_sections, line 468: sec_meta.get("weight") or 1.0
WeightOrOne(w) == IF w = None \/ w[1] = 0 THEN 1 ELSE w[1]

\* _aggregate_sections, lines 483-492: the category built from one payload
Category(sec) ==
  [name |-> sec.section.name,
   status |-> IF (IF sec.sectionScore = None THEN 0 ELSE sec.sectionScore[1]) >= 0
              THEN "pass" ELSE "unknown",
   rationale |-> "",
   criteria |-> sec.criteria,
   score |-> sec.sectionScore,
   weight |-> WeightOrOne(sec.section.weight)]

RECURSIVE Total(_)
\* _aggregate_sections, lines 493-494: total
Total(payloads) ==
  IF payloads = <<>> THEN 0
  ELSE LET sec == Head(payloads)
       IN (IF sec.sectionScore = None THEN 0
           ELSE sec.sectionScore[1] * WeightOrOne(sec.section.weight))
          + Total(Tail(payloads))

RECURSIVE TotalWeight(_)
\* _aggregate_sections, lines 493-495: total_weight
TotalWeight(payloads) ==
  IF payloads = <<>> THEN 0
  ELSE LET sec == Head(payloads)
       IN (IF sec.sectionScore = None THEN 0 ELSE WeightOrOne(sec.section.weight))
          + TotalWeight(Tail(payloads))

\* ComplianceScorer._aggregate_sections, lines 461-504
aggregate_sections(section_payloads) ==
  LET total == Total(section_payloads)
      total_weight == TotalWeight(section_payloads)
      overall_score == IF total_weight > 0 THEN Quotient(total, total_weight) ELSE None
  IN [overall_status |-> IF overall_score # None /\ overall_score[1] > 0
                         THEN "pass" ELSE "unknown",
      overall_score |-> overall_score,
      summary |-> "Aggregated from sectional analysis.",
      categories |-> [k \in DOMAIN section_payloads |-> Category(section_payloads[k])],
      recommendations |-> <<>>]

\* ComplianceScorer._map_scorecard, lines 506-544: the ScorecardResult of data
map_scorecard(data) ==
  [type |-> "ScorecardResult",
   overall_status |-> data.overall_status,
   overall_score |-> data.overall_score,
   summary |-> data.summary,
   categories |-> data.categories,
   recommendations |-> data.recommendations]

\* ------------------------------------------------------- sectional scorer
\* An exception's message is modelled by the set of the substrings
\* classify_error looks for that str(exc).lower() contains.
Tokens == {"rate limit", "429", "timeout", "timed out", "json", "schema"}

\* The messages of the exceptions run_one may raise after its request has
\* returned (json.loads of the response text, lines 263-265).
Messages ==
  { {}, {"429"}, {"timeout"}, {"json", "schema"}, {"rate limit", "timed out"} }

\* The messages of the exceptions a request to the API (fn, lines 243-260)
\* may fail with: a rate-limit signal, a timeout, anything else.
ApiMessages == { {"429", "rate limit"}, {"timed out"}, {} }

\* The message of _with_retries' RuntimeError("Compliance scoring failed"),
\* line 346: it contains none of the substrings.
ScoringFailed == {}

\* evaluate.classify_error, lines 207-215
classify_error(msg) ==
  IF "rate limit" \in msg \/ "429" \in msg THEN "rate_limit"
  ELSE IF "timeout" \in msg \/ "timed out" \in msg THEN "timeout"
  ELSE IF "json" \in msg /\ "schema" \in msg THEN "schema"
  ELSE "other"

\* ComplianceScorer.__init__, line 118: the default of the concurrency argument
DefaultConcurrency == 1

\* ComplianceScorer.__init__, line 124
InitConcurrency(c) == Max(1, c)

\* evaluate.pick_initial_concurrency, lines 218-222
pick_initial_concurrency(n) ==
  IF self_concurrency > 0 THEN self_concurrency
  ELSE Min(3, Max(1, n))

max_attempts_unfloored == max_retries + 1

\* evaluate, line 224
max_attempts == Max(2, max_retries + 1)

BackOffUnfloored(kind, c) ==
  IF kind = "rate_limit" THEN c - 1 ELSE c

\* evaluate, lines 303-304: the permit count after a failure of this kind
BackOff(kind, c) ==
  IF kind = "rate_limit" /\ c > 1 THEN c - 1 ELSE c

\* _extract_sections, lines 449-458: section i of the template (0-based index
\* i - 1), named by its position
TemplateSection(i) == [name |-> i, weight |-> Some(i)]

\* evaluate, lines 312-323: the neutral payload of section i
Neutral(i) ==
  [section |-> TemplateSection(i),
   criteria |-> <<>>,
   sectionScore |-> None,
   suggestedImprovements |-> <<FALLBACK_NOTE>>]

\* run_one's return value for section i (lines 263-266): the parsed response,
\* one scored criterion and a score
SectionResult(i) ==
  [section |-> TemplateSection(i),
   criteria |-> <<"criterion">>,
   sectionScore |-> Some(80),
   suggestedImprovements |-> <<>>]

GiveUpDropped(results, i) == results

\* evaluate, line 324: the final failure of section i's task
GiveUp(results, i) == Append(results, Neutral(i))

RequeueBack(queue, i) == Append(queue, i)

\* evaluate, line 309: pending.appendleft(task)
Requeue(queue, i) == <<i>> \o queue

LastCallAlways(calls) == TRUE

\* _with_retries, lines 338 and 343: the call just failed was the last one
LastCall(calls) == calls >= max_retries + 1

\* A task with no future in in_flight.  calls and cause are locals of the
\* worker's _with_retries (attempt, last_exc) and are kept only while they
\* are in scope.
NoFuture == [state |-> "none", msg |-> {}, calls |-> 0, cause |-> {}]

ScoreInputs ==
  [n_sections : 0..MaxSections, max_retries : 0..MaxRetries,
   concurrency : {None} \cup {Some(c) : c \in 0..MaxConcurrency}]

\* evaluate, lines 133-137, 176-227 and 268-269: the state on entering the
\* single-shot request or the scheduling loop
ScoreInit ==
  /\ \E in \in ScoreInputs :
       /\ n_sections = in.n_sections
       /\ max_retries = in.max_retries
       /\ concurrency_arg = in.concurrency
       /\ self_concurrency =
            InitConcurrency(IF in.concurrency = None THEN DefaultConcurrency
                            ELSE in.concurrency[1])
  /\ pc = IF n_sections = 0 THEN "single_call" ELSE "score_loop"
  /\ concurrency = IF n_sections = 0 THEN self_concurrency
                   ELSE pick_initial_concurrency(n_sections)
  /\ pending = [i \in 1..n_sections |-> i]
  /\ in_flight = {}
  /\ task_attempts = [i \in 1..n_sections |-> 0]
  /\ statuses = [i \in 1..n_sections |-> [state |-> "queued", attempts |-> 0, error |-> "none"]]
  /\ section_results = <<>>
  /\ futures = [i \in 1..n_sections |-> NoFuture]
  /\ submits = [i \in 1..n_sections |-> 0]
  /\ single_calls = 0
  /\ scorecard = <<>>
  /\ duration = 0
  /\ markers = NoMarkerLists
  /\ target_seconds = 0
  /\ max_extension = 0
  /\ boundaries = <<>>
  /\ last_boundary = 0
  /\ target = 0
  /\ boundary = 0
  /\ candidates = <<>>
  /\ AudioIdle

scoreArgs == <<n_sections, max_retries, self_concurrency, concurrency_arg>>
notScoreVars == <<planVars, audioVars>>

\* evaluate, lines 144-163 with _with_retries, lines 338-346: one call of fn
\* on the no-sections path fails; it is retried, or the RuntimeError is raised
SingleCallFails ==
  /\ pc = "single_call"
  /\ single_calls' = single_calls + 1
  /\ pc' = IF LastCall(single_calls') THEN "single_raised" ELSE "single_call"
  /\ UNCHANGED <<scoreArgs, concurrency, pending, in_flight, task_attempts,
                 statuses, section_results, futures, submits, scorecard>>
  /\ UNCHANGED notScoreVars

\* evaluate, lines 144-173: a call of fn returns a response whose text parses;
\* the scorecard is mapped from it
SingleCallOk ==
  /\ pc = "single_call"
  /\ single_calls' = single_calls + 1
  /\ scorecard' = map_scorecard([overall_status |-> "pass", overall_score |-> Some(92),
                                 summary |-> "", categories |-> <<>>,
                                 recommendations |-> <<>>])
  /\ pc' = "single_returned"
  /\ UNCHANGED <<scoreArgs, concurrency, pending, in_flight, task_attempts,
                 statuses, section_results, futures, submits>>
  /\ UNCHANGED notScoreVars

\* evaluate, lines 144-165: a call of fn returns a response whose text does
\* not parse; json.loads raises outside _with_retries
SingleParseFails ==
  /\ pc = "single_call"
  /\ single_calls' = single_calls + 1
  /\ pc' = "single_parse_raised"
  /\ UNCHANGED <<scoreArgs, concurrency, pending, in_flight, task_attempts,
                 statuses, section_results, futures, submits, scorecard>>
  /\ UNCHANGED notScoreVars

\* Admission up to and including the permit count.
CanAdmitOffByOne(n, c) == n <= c

\* evaluate, line 272: len(in_flight) < concurrency
CanAdmit(n, c) == n < c

\* evaluate, lines 272-276: admit one pending task
Admit ==
  /\ pc = "score_loop"
  /\ pending # <<>>
  /\ CanAdmit(Cardinality(in_flight), concurrency)
  /\ LET task == Head(pending)
     IN  /\ pending' = Tail(pending)
         /\ statuses' = [statuses EXCEPT ![task] =
                           [state |-> "running", attempts |-> task_attempts[task],
                            error |-> "none"]]
         /\ futures' = [futures EXCEPT ![task] =
                          [state |-> "running", msg |-> {}, calls |-> 0, cause |-> {}]]
         /\ submits' = [submits EXCEPT ![task] = @ + 1]
         /\ in_flight' = in_flight \cup {task}
  /\ UNCHANGED <<pc, scoreArgs, concurrency, task_attempts, section_results,
                 single_calls, scorecard>>
  /\ UNCHANGED notScoreVars

\* evaluate, lines 270-280: nothing more to admit; wait, or leave the loop
AdmitEnd ==
  /\ pc = "score_loop"
  /\ ~(pending # <<>> /\ CanAdmit(Cardinality(in_flight), concurrency))
  /\ pc' = IF in_flight = {} THEN "score_aggregate" ELSE "score_wait"
  /\ UNCHANGED scoreVars
  /\ UNCHANGED notScoreVars

\* run_one in a worker thread, lines 242-261 with _with_retries, lines 338-346:
\* a call of fn fails with message m; the worker sleeps and calls again, or,
\* after the last call, raises RuntimeError("Compliance scoring failed") from it
ApiCallFails(i) ==
  /\ futures[i].state = "running"
  /\ \E m \in ApiMessages :
       LET n == futures[i].calls + 1
       IN futures' = [futures EXCEPT ![i] =
                        IF LastCall(n)
                        THEN [state |-> "raised", msg |-> ScoringFailed,
                              calls |-> 0, cause |-> m]
                        ELSE [state |-> "running", msg |-> {}, calls |-> n,
                              cause |-> {}]]
  /\ UNCHANGED <<pc, scoreArgs, concurrency, pending, in_flight, task_attempts,
                 statuses, section_results, submits, single_calls, scorecard>>
  /\ UNCHANGED notScoreVars

\* A worker thread finishes run_one (lines 231-266) after a call of fn has
\* returned: it returns the parsed response, or raises an exception with
\* some message.
WorkerFinish(i) ==
  /\ futures[i].state = "running"
  /\ \/ futures' = [futures EXCEPT ![i] =
                      [state |-> "returned", msg |-> {}, calls |-> 0, cause |-> {}]]
     \/ \E m \in Messages :
          futures' = [futures EXCEPT ![i] =
                        [state |-> "raised", msg |-> m, calls |-> 0, cause |-> {}]]
  /\ UNCHANGED <<pc, scoreArgs, concurrency, pending, in_flight, task_attempts,
                 statuses, section_results, submits, single_calls, scorecard>>
  /\ UNCHANGED notScoreVars

\* evaluate, lines 284-297: as_completed yields a future that returned; it is
\* popped from in_flight
CompleteOk(i) ==
  /\ pc = "score_wait"
  /\ i \in in_flight
  /\ futures[i].state = "returned"
  /\ in_flight' = in_flight \ {i}
  /\ section_results' = Append(section_results, SectionResult(i))
  /\ statuses' = [statuses EXCEPT ![i] =
                    [state |-> "done", attempts |-> task_attempts[i], error |-> "none"]]
  /\ futures' = [futures EXCEPT ![i] = NoFuture]
  /\ pc' = "score_loop"
  /\ UNCHANGED <<scoreArgs, concurrency, pending, task_attempts,
                 submits, single_calls, scorecard>>
  /\ UNCHANGED notScoreVars

\* The task given up is put back at the front of the queue.
AfterGiveUpRequeued(queue, i) == <<i>> \o queue

\* evaluate, lines 309-323: the final-failure branch leaves pending alone
AfterGiveUp(queue, i) == queue

\* evaluate, lines 284-293 and 298-326: as_completed yields a future that raised
CompleteFailed(i) ==
  /\ pc = "score_wait"
  /\ i \in in_flight
  /\ futures[i].state = "raised"
  /\ LET kind == classify_error(futures[i].msg)
         n == task_attempts[i] + 1
     IN  /\ in_flight' = in_flight \ {i}
         /\ task_attempts' = [task_attempts EXCEPT ![i] = n]
         /\ concurrency' = BackOff(kind, concurrency)
         /\ IF n < max_attempts
            THEN /\ pending' = Requeue(pending, i)
                 /\ statuses' = [statuses EXCEPT ![i] =
                                   [state |-> "retrying", attempts |-> n, error |-> kind]]
                 /\ UNCHANGED section_results
            ELSE /\ section_results' = GiveUp(section_results, i)
                 /\ statuses' = [statuses EXCEPT ![i] =
                                   [state |-> "failed", attempts |-> n, error |-> kind]]
                 /\ pending' = AfterGiveUp(pending, i)
  /\ futures' = [futures EXCEPT ![i] = NoFuture]
  /\ pc' = "score_loop"
  /\ UNCHANGED <<scoreArgs, submits, single_calls, scorecard>>
  /\ UNCHANGED notScoreVars

\* evaluate, line 284: no in-flight future completes within the 5 seconds of
\* as_completed(..., timeout=5), whose iterator then raises TimeoutError;
\* nothing in evaluate catches it.
WaitTimeout ==
  /\ pc = "score_wait"
  /\ \A i \in in_flight : futures[i].state = "running"
  /\ pc' = "score_raised"
  /\ UNCHANGED scoreVars
  /\ UNCHANGED notScoreVars

\* evaluate, lines 328-334
Aggregate ==
  /\ pc = "score_aggregate"
  /\ scorecard' = map_scorecard(aggregate_sections(section_results))
  /\ pc' = "score_returned"
  /\ UNCHANGED <<scoreArgs, concurrency, pending, in_flight, task_attempts,
                 statuses, section_results, futures, submits, single_calls>>
  /\ UNCHANGED notScoreVars

ScoreNext ==
  \/ SingleCallFails
  \/ SingleCallOk
  \/ SingleParseFails
  \/ Admit
  \/ AdmitEnd
  \/ \E i \in 1..n_sections : ApiCallFails(i)
  \/ \E i \in 1..n_sections : WorkerFinish(i)
  \/ \E i \in 1..n_sections : CompleteOk(i)
  \/ \E i \in 1..n_sections : CompleteFailed(i)
  \/ WaitTimeout
  \/ Aggregate

SpecScore == ScoreInit /\ [][ScoreNext]_vars

\* ------------------------------------------------------ scorer properties
\* C10: within a sectional run the permit count never increases and never
\* drops below 1; handling a task failure classified rate_limit lowers it by
\* exactly 1 when it is above 1 and leaves it at 1 otherwise; every other
\* step (other failures, successes) leaves it unchanged.
C10_PermitsOnlyShrinkOnRateLimit ==
  /\ concurrency >= 1
  /\ [][ LET handled == in_flight \ in_flight'
             rate_limited ==
               \E i \in handled :
                 /\ futures[i].state = "raised"
                 /\ ("rate limit" \in futures[i].msg \/ "429" \in futures[i].msg)
         IN  /\ concurrency' >= 1
             /\ concurrency' <= concurrency
             /\ rate_limited =>
                  concurrency' = IF concurrency > 1 THEN concurrency - 1 ELSE 1
             /\ ~rate_limited => concurrency' = concurrency
       ]_vars

\* A rate_limit failure has been handled with one permit left, after an earlier
\* one lowered the permit count.
C10_Witness ==
  /\ concurrency = 1
  /\ self_concurrency > 1
  /\ pc = "score_loop"
  /\ Cardinality({i \in 1..n_sections : statuses[i].error = "rate_limit"}) >= 2

\* C11: when the request of a section's task failed for the last time with a
\* rate-limit signal (text containing "rate limit" or "429"), the loop's
\* handling of the task's failure records the kind rate_limit and, in the same
\* step, before admitting anything, lowers the permit count by one if it is
\* above 1.
C11_RateLimitedRequestShrinksPermits ==
  [][ \A i \in in_flight \ in_flight' :
        ( /\ futures[i].state = "raised"
          /\ ("rate limit" \in futures[i].cause \/ "429" \in futures[i].cause) )
        => /\ statuses'[i].error = "rate_limit"
           /\ concurrency' = IF concurrency > 1 THEN concurrency - 1 ELSE concurrency
    ]_vars

\* Section i's task has failed: a call of its request failed, or its future
\* holds an exception, or an earlier attempt of the task failed.
TaskFailed(i) ==
  \/ task_attempts[i] > 0
  \/ futures[i].state = "raised"
  \/ futures[i].state = "running" /\ futures[i].calls > 0

\* C12: in a sectional run, whatever tasks have failed so far, evaluate does
\* not raise: no step taken after a section's failure leaves evaluate with an
\* exception.
C12_FailuresNeverAbort ==
  [][ (\E i \in 1..n_sections : TaskFailed(i)) => pc' # "score_raised" ]_vars

\* C13: when a sectional run returns, section_results holds exactly one entry
\* for each section of the template, the section's result or its neutral
\* placeholder, and the scorecard has as many categories as the template has
\* sections.
C13_OneEntryPerSection ==
  pc = "score_returned" =>
    /\ Len(section_results) = n_sections
    /\ \A i \in 1..n_sections :
         /\ Cardinality({k \in DOMAIN section_results :
                           section_results[k].section.name = i}) = 1
         /\ \E k \in DOMAIN section_results :
              section_results[k] \in {SectionResult(i), Neutral(i)}
    /\ Len(scorecard.categories) = n_sections

\* A run returned with the result of one section and the placeholder of another.
C13_Witness ==
  /\ pc = "score_returned"
  /\ \E i, j \in 1..n_sections :
       /\ statuses[i].state = "failed"
       /\ statuses[j].state = "done"

\* C14: a section's task is submitted at most max(2, max_retries + 1) times;
\* a failure that leaves its attempts below that number puts it back at the
\* front of the pending queue; its last failure records a neutral placeholder
\* (null score, empty criteria), and a failed task is never submitted again.
C14_AtMostMaxAttempts ==
  /\ [](\A i \in 1..n_sections :
          /\ submits[i] <= Max(2, max_retries + 1)
          /\ statuses[i].state = "failed" =>
               /\ i \notin in_flight
               /\ i \notin SeqRange(pending)
               /\ \E k \in DOMAIN section_results :
                    /\ section_results[k].section.name = i
                    /\ section_results[k].sectionScore = None
                    /\ section_results[k].criteria = <<>>)
  /\ [][ \A i \in 1..n_sections :
           /\ statuses[i].state = "failed" => submits'[i] = submits[i]
           /\ (i \in in_flight \ in_flight' /\ futures[i].state = "raised") =>
                IF task_attempts'[i] < Max(2, max_retries + 1)
                THEN /\ pending' # <<>>
                     /\ Head(pending') = i
                     /\ section_results' = section_results
                ELSE /\ statuses'[i].state = "failed"
                     /\ submits[i] = Max(2, max_retries + 1)
                     /\ Len(section_results') = Len(section_results) + 1
     ]_vars

\* With max_retries = 0 a task was submitted twice and then given up.
C14_Witness ==
  /\ max_retries = 0
  /\ \E i \in 1..n_sections :
       /\ statuses[i].state = "failed"
       /\ submits[i] = 2

\* ------------------------------------------------- aggregation on its own
\* The section payloads _aggregate_sections is applied to: any score or none,
\* any weight or none, criteria left empty.
Payloads ==
  { [section |-> [name |-> 1, weight |-> w],
     criteria |-> <<>>,
     sectionScore |-> s,
     suggestedImprovements |-> <<>>] :
      w \in {None} \cup {Some(x) : x \in 0..MaxWeight},
      s \in {None} \cup {Some(x * ScoreStep) : x \in 0..MaxScoreSteps} }

PayloadLists ==
  UNION { [1..n -> Payloads] : n \in 0..MaxPayloads }

\* The state before a call of _aggregate_sections(section_payloads)
AggInit ==
  /\ pc = "agg_enter"
  /\ section_results \in PayloadLists
  /\ scorecard = <<>>
  /\ n_sections = 0
  /\ max_retries = 0
  /\ self_concurrency = 1
  /\ concurrency = 1
  /\ pending = <<>>
  /\ in_flight = {}
  /\ task_attempts = <<>>
  /\ statuses = <<>>
  /\ futures = <<>>
  /\ concurrency_arg = <<>>
  /\ submits = <<>>
  /\ single_calls = 0
  /\ duration = 0
  /\ markers = NoMarkerLists
  /\ target_seconds = 0
  /\ max_extension = 0
  /\ boundaries = <<>>
  /\ last_boundary = 0
  /\ target = 0
  /\ boundary = 0
  /\ candidates = <<>>
  /\ AudioIdle

\* ComplianceScorer._aggregate_sections, lines 461-504, as one step
AggregateSections ==
  /\ pc = "agg_enter"
  /\ scorecard' = aggregate_sections(section_results)
  /\ pc' = "agg_returned"
  /\ UNCHANGED <<scoreArgs, concurrency, pending, in_flight, task_attempts,
                 statuses, section_results, futures, submits, single_calls>>
  /\ UNCHANGED notScoreVars

AggNext == AggregateSections

SpecAggregate == AggInit /\ [][AggNext]_vars

\* The sections that produced a score.
Scored == {k \in DOMAIN section_results : section_results[k].sectionScore # None}

\* A section's weight, a missing one counting as 1.
WeightOf(k) ==
  LET w == section_results[k].section.weight
  IN IF w = None THEN 1 ELSE w[1]

RECURSIVE SumOver(_, _)
SumOver(S, f) ==
  IF S = {} THEN 0
  ELSE LET k == CHOOSE x \in S : TRUE
       IN f[k] + SumOver(S \ {k}, f)

\* C15: the overall score is null when no section has a score, and otherwise
\* equals (sum of score * weight) / (sum of weight), both sums ranging over
\* the sections with a non-null score only.
C15_WeightedMeanOfScored ==
  pc = "agg_returned" =>
    IF Scored = {} THEN scorecard.overall_score = None
    ELSE LET num == SumOver(Scored, [k \in Scored |->
                               section_results[k].sectionScore[1] * WeightOf(k)])
             den == SumOver(Scored, [k \in Scored |-> WeightOf(k)])
         IN /\ scorecard.overall_score # None
            /\ scorecard.overall_score[1] * den = num * scorecard.overall_score[2]

\* C16: the returned scorecard does not depend on the order in which the
\* section tasks complete.  A run in which the tasks complete one after the
\* other in template order is always possible and lists the categories in
\* template order, so this says: every returned scorecard lists the category
\* of section k at position k.
C16_CategoriesInTemplateOrder ==
  pc = "score_returned" =>
    \A k \in DOMAIN scorecard.categories : scorecard.categories[k].name = k

\* C17: when a wait ends with no in-flight task completed, the loop goes back
\* to admission with no task failed or retried (in_flight, pending, attempts,
\* results and permits unchanged), and evaluate does not raise.
C17_WaitIsNotATaskTimeout ==
  [][ ( /\ pc = "score_wait"
        /\ \A i \in in_flight : futures[i].state = "running"
        /\ pc' # pc )
      => /\ pc' = "score_loop"
         /\ UNCHANGED <<in_flight, pending, task_attempts, section_results,
                        concurrency, submits>>
    ]_vars

\* C18: a returned scorecard shows each section that exhausted its attempts:
\* it has a category for the section with empty criteria and null score, and
\* the placeholder's fallback note appears in the scorecard (among its
\* recommendations, as its summary, or as the category's rationale).
C18_FallbackVisibleInScorecard ==
  pc = "score_returned" =>
    \A i \in 1..n_sections :
      statuses[i].state = "failed" =>
        \E k \in DOMAIN scorecard.categories :
          /\ scorecard.categories[k].name = i
          /\ scorecard.categories[k].criteria = <<>>
          /\ scorecard.categories[k].score = None
          /\ \/ FALLBACK_NOTE \in SeqRange(scorecard.recommendations)
             \/ FALLBACK_NOTE = scorecard.summary
             \/ FALLBACK_NOTE = scorecard.categories[k].rationale

\* C19: with a template without sections no section task is ever submitted
\* and the single request is called at most max_retries + 1 times: a failed
\* call is followed by another call while fewer than max_retries + 1 were
\* made, the failure of call max_retries + 1 raises the one wrapped
\* RuntimeError, and a call that returns a scorecard's JSON ends the calls and
\* makes evaluate return the ScorecardResult mapped from it.
C19_SingleShotRetries ==
  /\ [](n_sections = 0 =>
          /\ submits = <<>>
          /\ in_flight = {}
          /\ pc \in {"single_call", "single_raised", "single_returned",
                     "single_parse_raised"}
          /\ single_calls <= max_retries + 1
          /\ pc = "single_call" => single_calls <= max_retries
          /\ pc = "single_raised" => single_calls = max_retries + 1
          /\ pc = "single_returned" => scorecard.type = "ScorecardResult")
  /\ [][ n_sections = 0 =>
           /\ pc # "single_call" => (pc' = pc /\ single_calls' = single_calls)
           /\ pc = "single_call" => single_calls' \in {single_calls, single_calls + 1}
           /\ pc' = "single_raised" => single_calls' = max_retries + 1
     ]_vars

\* evaluate returned a scorecard from the last call _with_retries could make,
\* after max_retries >= 1 failed calls.
C19_Witness ==
  /\ n_sections = 0
  /\ pc = "single_returned"
  /\ max_retries >= 1
  /\ single_calls = max_retries + 1

\* C20: on entering the scheduling loop the permit count is the concurrency
\* the caller gave to ComplianceScorer (when it gave one, of at least 1), and
\* min(3, number of sections) when it gave none.
C20_InitialPermits ==
  ( /\ pc = "score_loop"
    /\ \A i \in 1..n_sections : submits[i] = 0 )
  => concurrency = IF concurrency_arg = None THEN Min(3, n_sections)
                   ELSE IF concurrency_arg[1] >= 1 THEN concurrency_arg[1]
                   ELSE concurrency

\* The call is one that validation rejects: an oversized file with
\* re-encoding disabled, or a playback rate that is not positive.
InvalidCall ==
  \/ ~reencode /\ src_size > SAFETY_MB * MB
  \/ playback_rate <= 0

\* C21: a call that validation rejects never has an encoder path attempted
\* for it (neither the encoder command nor the in-process fallback) and never
\* returns segments.
C21_ValidationFailsFast ==
  InvalidCall =>
    /\ reenc.primary \in {"not_run", "invalid_rate"}
    /\ reenc.fallback = "not_run"
    /\ reenc.fallback_runs = 0
    /\ pc # "prep_returned"
    /\ segments = <<>>

\* C22: reencode_to_mp3_speech runs the in-process fallback exactly once
\* after the primary path failed, whatever the failure, and never after it
\* succeeded; it raises only after the fallback failed too, and the error then
\* carries the primary failure and the fallback failure.
C22_FallbackOnceOnPrimaryFailure ==
  /\ reenc.fallback_runs <= 1
  /\ reenc.primary \in {"ok", "not_run"} =>
       (reenc.fallback_runs = 0 /\ reenc.fallback = "not_run")
  /\ (pc = "reenc_fallback_done" \/ error = "reencode") =>
       (reenc.primary \notin {"ok", "not_run"} /\ reenc.fallback_runs = 1)
  /\ error = "reencode" =>
       /\ reenc.fallback = "failed"
       /\ reenc.message = {reenc.primary, "fallback_failed"}
  /\ pc \in {"prep_split", "prep_returned"} => error # "reencode"

\* The encoder's output was too small, the fallback ran once and failed, and
\* the composite error was raised.
C22_Witness ==
  /\ pc = "prep_raised"
  /\ error = "reencode"
  /\ reenc.primary = "too_small"
  /\ reenc.fallback_runs = 1

\* The [start, end) pairs of the first n planned segments that are not
\* skipped (split_mp3_by_silence lines 373-377), in order.
RECURSIVE PlannedTimes(_)
PlannedTimes(n) ==
  IF n = 0 THEN <<>>
  ELSE LET s == Cuts[n]
           e == Cuts[n + 1]
       IN  IF SkipSegment(s, e) THEN PlannedTimes(n - 1)
           ELSE Append(PlannedTimes(n - 1), <<s, e>>)

SegTimes(segs) == [i \in DOMAIN segs |-> <<segs[i].start, segs[i].end>>]

FallbackExported(o) == ~o.primary /\ o.fallback = "ok"

\* C23: a planned segment whose encoder invocation failed (non-zero exit,
\* missing or empty file) and whose in-process slicing succeeded is appended
\* with its planned start and end and a non-empty file, and the run goes on;
\* the segments returned have the number and the timing of the planned
\* segments, whichever path exported each.
C23_FallbackKeepsSegment ==
  /\ (exports # <<>> /\ FallbackExported(exports[Len(exports)])) =>
       /\ error = "none"
       /\ pc \in {"sil_loop", "sil_returned", "prep_returned"}
       /\ Len(segments) = Len(exports)
       /\ FileSize(segments[Len(segments)].path) > 0
  /\ pc = "sil_loop" => SegTimes(segments) = PlannedTimes(idx)
  /\ (pc = "sil_returned" /\ Len(boundaries) > 1
        /\ PlannedTimes(Len(Cuts) - 1) # <<>>) =>
       SegTimes(segments) = PlannedTimes(Len(Cuts) - 1)

\* The end-to-end example returned its three segments, the second one
\* exported by the in-process fallback.
C23_Witness ==
  /\ pc = "sil_returned"
  /\ Len(exports) = 3
  /\ exports[1].primary
  /\ FallbackExported(exports[2])
  /\ SegTimes(segments) = << <<0, 605000>>, <<605000, 1210000>>,
                             <<1210000, 1800000>> >>

\* C24: when the silence analysis exits non-zero, prepare_audio with
\* silence-aware splitting raises, returns no segments, plans no boundaries
\* and does not go on to size-based splitting (no part is cut or written).
C24_DetectionFailureIsFatal ==
  (detect_rc # -1 /\ detect_rc # 0) =>
    /\ error = "silence_detection"
    /\ pc # "prep_returned"
    /\ segments = <<>>
    /\ boundaries = <<>>
    /\ max_ms = 0
    /\ \A f \in files : f.path \in {SrcPath, Mp3Path}

\* The analysis failed after a successful re-encode and the call raised.
C24_Witness ==
  /\ detect_rc = 1
  /\ pc = "prep_raised"
  /\ use_silence_splitting
  /\ Mp3Path \in SeqRange(temp_files)

\* A call of cleanup has run to its end.
CleanupDone == cleanup.calls >= 1 /\ cleanup.i = 0

\* C25: once cleanup() has run after prepare_audio returned or raised, and
\* no unlink failed, no file of the run and no temporary directory is left.
C25_CleanupRemovesEverything ==
  (CleanupDone /\ cleanup.failed = {}) => (files = {} /\ ~tmp_dir)

\* C26 (states): a finished cleanup has attempted the removal of every file
\* that was tracked and has left the tracked-file list empty.
C26_AllAttemptedListEmpty ==
  CleanupDone => (temp_files = <<>> /\ cleanup.attempted = cleanup.tracked)

\* C26 (steps): a failed removal is swallowed, the loop going on with the next
\* tracked file, and nothing changes the files, the directory or the list
\* once a first cleanup has finished: a second cleanup is a no-op.
C26_SwallowedAndIdempotent ==
  /\ cleanup'.failed # cleanup.failed =>
       (cleanup'.i = cleanup.i + 1 /\ error' = error /\ pc' = pc)
  /\ CleanupDone =>
       (files' = files /\ tmp_dir' = tmp_dir /\ temp_files' = temp_files)

\* C26: cleanup() never raises: a failure while removing one tracked file is
\* swallowed, removal is still attempted for every other tracked file, and
\* the tracked-file list is empty afterwards, so a second cleanup() is a
\* no-op.
C26_CleanupBestEffort ==
  [] C26_AllAttemptedListEmpty /\ [][C26_SwallowedAndIdempotent]_vars

\* Two cleanups have run over at least three tracked files; unlinking the
\* uploaded copy failed and the removal of the others was still attempted.
C26_Witness ==
  /\ cleanup.calls = 2
  /\ cleanup.i = 0
  /\ cleanup.failed = {SrcPath}
  /\ Cardinality(cleanup.tracked) >= 3
  /\ cleanup.attempted = cleanup.tracked

\* The status transitions of the section state machine.
StatusSteps ==
  { <<"queued", "running">>, <<"running", "done">>, <<"running", "retrying">>,
    <<"retrying", "running">>, <<"running", "failed">>,
    <<"retrying", "failed">> }

\* C27: each section's status changes only along queued -> running,
\* running -> done, running -> retrying, retrying -> running and
\* running/retrying -> failed; once a section is done or failed its status
\* never changes again and it is never resubmitted.
C27_StatusStateMachine ==
  [][ \A i \in 1..n_sections :
        /\ statuses'[i].state # statuses[i].state =>
             <<statuses[i].state, statuses'[i].state>> \in StatusSteps
        /\ statuses[i].state \in {"done", "failed"} =>
             /\ statuses'[i] = statuses[i]
             /\ submits'[i] = submits[i]
             /\ i \notin in_flight'
             /\ i \notin SeqRange(pending')
    ]_vars

\* A section went queued -> running -> retrying -> running -> failed while
\* another one is done.
C27_Witness ==
  /\ n_sections >= 2
  /\ \E i, j \in 1..n_sections :
       /\ statuses[i].state = "failed"
       /\ submits[i] >= 2
       /\ statuses[j].state = "done"

\* C28 (states): the number of in-flight tasks is at most the permit count.
C28_InFlightWithinPermits == Cardinality(in_flight) <= concurrency

\* C28 (steps): a task is admitted only while the in-flight count is below
\* the permit count.
C28_AdmitsBelowPermits ==
  (in_flight' # in_flight /\ in_flight \subseteq in_flight') =>
    Cardinality(in_flight) < concurrency

\* C28: at every point of a sectional run the number of in-flight tasks is
\* at most the current permit count, also right after a rate-limit failure
\* lowered the permit count while other tasks are running, and no task is
\* admitted while the in-flight count is at or above the permit count.
C28_PermitsBoundInFlight ==
  [] C28_InFlightWithinPermits /\ [][C28_AdmitsBelowPermits]_vars

\* A rate-limit failure has just lowered the permit count to 1 while another
\* task is still running, and the failed task waits in the queue.
C28_Witness ==
  /\ pc = "score_loop"
  /\ concurrency = 1
  /\ self_concurrency = 2
  /\ pending # <<>>
  /\ statuses[Head(pending)].state = "retrying"
  /\ statuses[Head(pending)].error = "rate_limit"
  /\ \E j \in in_flight : futures[j].state = "running"

\* Every section task is complete: nothing is queued or in flight and every
\* status is done or failed.
AllTasksComplete ==
  /\ pending = <<>>
  /\ in_flight = {}
  /\ \A i \in 1..n_sections : statuses[i].state \in {"done", "failed"}

\* C29: a sectional run ends only with every task complete: when evaluate
\* has returned or raised, the pending queue and the in-flight set are empty
\* and every section's status is done or failed.
C29_EndsWithAllTasksComplete ==
  (n_sections > 0 /\ pc \in {"score_returned", "score_raised"}) =>
    AllTasksComplete

\* C30: each iteration of split_mp3_under_limit's cutting loop, which runs
\* when the file is over the cap, advances the start position by at least
\* 1 ms, whatever the cap.
C30_EachCutAdvances ==
  [][ (pc = "lim_loop" /\ segments' # segments) => start' >= start + 1 ]_vars

====
